---- MODULE Spec2Model ----
(***************************************************************************)
(* Model of scout.py: the crawl / fetch / verify pipeline that looks for   *)
(* Safety Data Sheet PDFs, with its process-wide visit counters, the       *)
(* per-invocation download counter, the temporary and persistent storage   *)
(* areas and the JSON report.                                              *)
(*                                                                         *)
(* The string operations work on sequences of one-character strings, so   *)
(* that the substring tests, the URL splitting and the regular-expression  *)
(* search are computed the way the code computes them.                     *)
(***************************************************************************)
EXTENDS Integers, Sequences, FiniteSets, TLC

----------------------------------------------------------------------------
(* Program constants                                                       *)

MAX_URL_VISITS == 5

MAX_DOMAIN_VISITS == 5

DOWNLOAD_LIMIT == 5

\* extract_text_from_pdf reads only the first PAGE_LIMIT pages
PAGE_LIMIT == 5

\* Python's None; distinct from every string of the model
None == "<None>"

\* Python's True and False where they are stored next to strings
PyTrue == "<True>"

PyFalse == "<False>"

\* The empty dict `{}` that save_report returns when it persisted nothing
EmptyDict == [kind |-> "dict", items |-> <<>>]

\* A list as returned by json.loads
List(items) == [kind |-> "list", items |-> items]

\* A path at which no file exists
NoFile == "absent"

SKIP_URLS ==
    {
       <<"g","u","i","d","e","c","h","e","m">>,
       <<"c","h","e","m","i","c","a","l","b","o","o","k">>,
       <<"c","o","m","m","o","n","c","h","e","m","i","s","t","r","y">>,
       <<"a","l","p","h","a","-","c","h","e","m","i","s","t","r","y">>,
       <<"l","o","o","k","c","h","e","m">>,
       <<"h","o","m","e">>,
       <<"p","h","a","r","m","a","f","f","i","l","i","a","t","e","s">>,
       <<"l","o","g","i","n">>,
       <<"p","r","i","v","a","c","y">>,
       <<"l","i","n","k","e","d","i","n">>,
       <<"t","w","i","t","t","e","r">>,
       <<"x",".","c","o","m">>,
       <<"f","a","c","e","b","o","o","k">>,
       <<"y","o","u","t","u","b","e">>,
       <<"s","u","p","p","o","r","t">>,
       <<"c","o","n","t","a","c","t">>,
       <<"f","o","o","d">>,
       <<"c","h","e","m","i","c","a","l","b","o","o","k",".","c","o","m">>,
       <<"g","u","i","d","e","c","h","e","m",".","c","o","m">>,
       <<"p","h","a","r","m","a","f","f","i","l","i","a","t","e","s",".","c","o","m">>,
       <<"b","e","n","j","a","m","i","n","m","o","o","r","e",".","c","o","m">>,
       <<"w","i","k","i","p","e","d","i","a">>,
       <<"i","m","d","b">>,
       <<"a","m","a","z","o","n">>,
       <<"e","b","a","y">>,
       <<"c","r","a","i","g","s","l","i","s","t">>,
       <<"p","i","n","t","e","r","e","s","t">>,
       <<"i","n","s","t","a","g","r","a","m">>,
       <<"t","u","m","b","l","r">>,
       <<"r","e","d","d","i","t">>,
       <<"s","n","a","p","c","h","a","t">>,
       <<"t","i","k","t","o","k">>,
       <<"n","y","t","i","m","e","s">>,
       <<"h","u","f","f","i","n","g","t","o","n","p","o","s","t">>,
       <<"f","o","r","b","e","s">>,
       <<"b","l","o","o","m","b","e","r","g">>,
       <<"b","b","c">>,
       <<"c","n","n">>,
       <<"f","o","x","n","e","w","s">>,
       <<"n","b","c","n","e","w","s">>,
       <<"a","b","c","n","e","w","s">>,
       <<"t","h","e","g","u","a","r","d","i","a","n">>,
       <<"d","a","i","l","y","m","a","i","l">>,
       <<"u","s","a","t","o","d","a","y">>,
       <<"q","u","o","r","a">>,
       <<"s","t","a","c","k","e","x","c","h","a","n","g","e">>,
       <<"s","t","a","c","k","o","v","e","r","f","l","o","w">>,
       <<"t","r","i","p","a","d","v","i","s","o","r">>,
       <<"y","e","l","p">>,
       <<"z","o","m","a","t","o">>,
       <<"o","p","e","n","t","a","b","l","e">>,
       <<"h","e","a","l","t","h","l","i","n","e">>,
       <<"w","e","b","m","d">>,
       <<"m","a","y","o","c","l","i","n","i","c">>,
       <<"n","i","h",".","g","o","v">>,
       <<"c","d","c",".","g","o","v">>,
       <<"f","d","a",".","g","o","v">>,
       <<"e","p","a",".","g","o","v">>,
       <<"g","o","o","g","l","e">>,
       <<"b","i","n","g">>,
       <<"y","a","h","o","o">>,
       <<"a","s","k">>,
       <<"a","o","l">>,
       <<"b","a","i","d","u">>,
       <<"m","s","n">>,
       <<"d","u","c","k","d","u","c","k","g","o">>,
       <<"y","a","n","d","e","x">>,
       <<"c","o","u","r","s","e","r","a">>,
       <<"u","d","e","m","y">>,
       <<"e","d","x">>,
       <<"k","h","a","n","a","c","a","d","e","m","y">>,
       <<"l","i","n","k","e","d","i","n",".","c","o","m">>,
       <<"t","w","i","t","t","e","r",".","c","o","m">>,
       <<"f","a","c","e","b","o","o","k",".","c","o","m">>,
       <<"y","o","u","t","u","b","e",".","c","o","m">>,
       <<"i","n","s","t","a","g","r","a","m",".","c","o","m">>,
       <<"t","u","m","b","l","r",".","c","o","m">>,
       <<"r","e","d","d","i","t",".","c","o","m">>,
       <<"s","n","a","p","c","h","a","t",".","c","o","m">>,
       <<"t","i","k","t","o","k",".","c","o","m">>,
       <<"n","y","t","i","m","e","s",".","c","o","m">>,
       <<"h","u","f","f","i","n","g","t","o","n","p","o","s","t",".","c","o","m">>,
       <<"f","o","r","b","e","s",".","c","o","m">>,
       <<"b","l","o","o","m","b","e","r","g",".","c","o","m">>,
       <<"b","b","c",".","c","o","m">>,
       <<"c","n","n",".","c","o","m">>,
       <<"f","o","x","n","e","w","s",".","c","o","m">>,
       <<"n","b","c","n","e","w","s",".","c","o","m">>,
       <<"a","b","c","n","e","w","s",".","c","o","m">>,
       <<"t","h","e","g","u","a","r","d","i","a","n",".","c","o","m">>,
       <<"d","a","i","l","y","m","a","i","l",".","c","o",".","u","k">>,
       <<"u","s","a","t","o","d","a","y",".","c","o","m">>,
       <<"q","u","o","r","a",".","c","o","m">>,
       <<"s","t","a","c","k","e","x","c","h","a","n","g","e",".","c","o","m">>,
       <<"s","t","a","c","k","o","v","e","r","f","l","o","w",".","c","o","m">>,
       <<"t","r","i","p","a","d","v","i","s","o","r",".","c","o","m">>,
       <<"y","e","l","p",".","c","o","m">>,
       <<"z","o","m","a","t","o",".","c","o","m">>,
       <<"o","p","e","n","t","a","b","l","e",".","c","o","m">>,
       <<"h","e","a","l","t","h","l","i","n","e",".","c","o","m">>,
       <<"w","e","b","m","d",".","c","o","m">>,
       <<"m","a","y","o","c","l","i","n","i","c",".","o","r","g">>,
       <<"g","o","o","g","l","e",".","c","o","m">>,
       <<"b","i","n","g",".","c","o","m">>,
       <<"y","a","h","o","o",".","c","o","m">>,
       <<"a","s","k",".","c","o","m">>,
       <<"a","o","l",".","c","o","m">>,
       <<"b","a","i","d","u",".","c","o","m">>,
       <<"m","s","n",".","c","o","m">>,
       <<"d","u","c","k","d","u","c","k","g","o",".","c","o","m">>,
       <<"y","a","n","d","e","x",".","c","o","m">>,
       <<"c","o","u","r","s","e","r","a",".","o","r","g">>,
       <<"u","d","e","m","y",".","c","o","m">>,
       <<"e","d","x",".","o","r","g">>,
       <<"r","e","g","i","s","t","e","r">>,
       <<"s","i","g","n","u","p">>,
       <<"s","i","g","n","i","n">>,
       <<"f","a","q">>,
       <<"t","e","r","m","s">>,
       <<"c","o","n","d","i","t","i","o","n","s">>,
       <<"t","e","r","m","s","-","o","f","-","s","e","r","v","i","c","e">>,
       <<"h","e","l","p">>,
       <<"a","b","o","u","t">>,
       <<"m","y","-","a","c","c","o","u","n","t">>,
       <<"f","a","v","o","u","r","i","t","e","s">>,
       <<"b","u","l","k","O","r","d","e","r">>,
       <<"c","a","r","t">>,
       <<"s","c","r","i","b","d">>
    }

----------------------------------------------------------------------------
(* Python strings in the state.  A TLA+ string stands for the Python       *)
(* string with the same text; Chars gives its characters for the           *)
(* operations that look inside a string, and Str goes back.                *)

Strings ==
    {
      "",
      "50-00-0",
      "Acetone",
      "http://a.io/s.pdf",
      "http://a.io/d/s.pdf",
      "http://b.io/doc",
      "http://b.io/cart/s.pdf",
      "http://x.com/s.pdf",
      "a.io",
      "b.io",
      "x.com",
      "s.pdf",
      "doc",
      "doc.pdf",
      "unverified",
      "verified",
      "unverified/s.pdf",
      "unverified/doc.pdf",
      "verified/s.pdf",
      "verified/doc.pdf"
    }

Chars(s) ==
    CASE s = "" -> <<>>
      [] s = "50-00-0" -> <<"5","0","-","0","0","-","0">>
      [] s = "Acetone" -> <<"A","c","e","t","o","n","e">>
      [] s = "http://a.io/s.pdf" -> <<"h","t","t","p",":","/","/","a",".","i","o","/","s",".","p","d","f">>
      [] s = "http://a.io/d/s.pdf" -> <<"h","t","t","p",":","/","/","a",".","i","o","/","d","/","s",".","p","d","f">>
      [] s = "http://b.io/doc" -> <<"h","t","t","p",":","/","/","b",".","i","o","/","d","o","c">>
      [] s = "http://b.io/cart/s.pdf" -> <<"h","t","t","p",":","/","/","b",".","i","o","/","c","a","r","t","/","s",".","p","d","f">>
      [] s = "http://x.com/s.pdf" -> <<"h","t","t","p",":","/","/","x",".","c","o","m","/","s",".","p","d","f">>
      [] s = "a.io" -> <<"a",".","i","o">>
      [] s = "b.io" -> <<"b",".","i","o">>
      [] s = "x.com" -> <<"x",".","c","o","m">>
      [] s = "s.pdf" -> <<"s",".","p","d","f">>
      [] s = "doc" -> <<"d","o","c">>
      [] s = "doc.pdf" -> <<"d","o","c",".","p","d","f">>
      [] s = "unverified" -> <<"u","n","v","e","r","i","f","i","e","d">>
      [] s = "verified" -> <<"v","e","r","i","f","i","e","d">>
      [] s = "unverified/s.pdf" -> <<"u","n","v","e","r","i","f","i","e","d","/","s",".","p","d","f">>
      [] s = "unverified/doc.pdf" -> <<"u","n","v","e","r","i","f","i","e","d","/","d","o","c",".","p","d","f">>
      [] s = "verified/s.pdf" -> <<"v","e","r","i","f","i","e","d","/","s",".","p","d","f">>
      [] s = "verified/doc.pdf" -> <<"v","e","r","i","f","i","e","d","/","d","o","c",".","p","d","f">>

Str(cs) == CHOOSE s \in Strings : Chars(s) = cs

\* truth value that takes the empty string for true
Truthy_not_none(v) == v # None

\* Python truthiness of an optional string: None and "" are falsy
Truthy(v) == v # None /\ v # ""

----------------------------------------------------------------------------
(* String helpers (str methods used by the code), on character sequences   *)

\* `w in s` for strings
IsSubstr(w, s) ==
    \E i \in 0..(Len(s) - Len(w)) : SubSeq(s, i + 1, i + Len(w)) = w

\* s.endswith(suf)
EndsWith(s, suf) ==
    /\ Len(s) >= Len(suf)
    /\ SubSeq(s, Len(s) - Len(suf) + 1, Len(s)) = suf

DotPdf == <<".","p","d","f">>

\* positions of "/" in s
SlashPos(s) == {i \in 1..Len(s) : s[i] = "/"}

Max(S) == CHOOSE x \in S : \A y \in S : y <= x

Min(S) == CHOOSE x \in S : \A y \in S : x <= y

\* url.split("/")[-1]
LastSegment(url) ==
    IF SlashPos(url) = {} THEN url
    ELSE SubSeq(url, Max(SlashPos(url)) + 1, Len(url))

\* urlparse(url).netloc: what follows the "//" after the scheme, up to the
\* next "/", "?" or "#"; empty when the URL has no "//"
Netloc(url) ==
    LET starts == {i \in 1..(Len(url) - 1) :
                      /\ url[i] = "/" /\ url[i + 1] = "/"
                      /\ \/ i = 1
                         \/ /\ i >= 2 /\ url[i - 1] = ":"
                            /\ \A j \in 1..(i - 2) :
                                   url[j] \notin {"/", "?", "#"}}
    IN  IF starts = {} THEN <<>>
        ELSE LET b == Min(starts) + 2
                 ends == {j \in b..Len(url) : url[j] \in {"/", "?", "#"}}
                 e == IF ends = {} THEN Len(url) ELSE Min(ends) - 1
             IN  SubSeq(url, b, e)

\* the skip-word test on the domain alone
MatchesSkipWords_domain_only(url) ==
    \E skip_word \in SKIP_URLS : IsSubstr(skip_word, Netloc(url))

\* the skip-word test of download_and_verify_pdfs
MatchesSkipWords(url) ==
    \/ \E skip_word \in SKIP_URLS : IsSubstr(skip_word, Netloc(url))
    \/ \E skip_word \in SKIP_URLS : IsSubstr(skip_word, url)

----------------------------------------------------------------------------
(* Regular expressions: set_pattern and pattern.search                     *)

UpperCase ==
    <<"A","B","C","D","E","F","G","H","I","J","K","L","M",
      "N","O","P","Q","R","S","T","U","V","W","X","Y","Z">>

LowerCase ==
    <<"a","b","c","d","e","f","g","h","i","j","k","l","m",
      "n","o","p","q","r","s","t","u","v","w","x","y","z">>

Digits == {"0","1","2","3","4","5","6","7","8","9"}

\* re.IGNORECASE folds both sides of a character comparison
Lower(c) ==
    IF \E i \in 1..26 : UpperCase[i] = c
    THEN LowerCase[CHOOSE i \in 1..26 : UpperCase[i] = c]
    ELSE c

\* the class \w
IsWordChar(c) ==
    \/ \E i \in 1..26 : c = UpperCase[i] \/ c = LowerCase[i]
    \/ c \in Digits
    \/ c = "_"

\* \b at the position between text[i] and text[i+1] (0 <= i <= Len(text))
WordBoundary(text, i) ==
    LET w(j) == j \in 1..Len(text) /\ IsWordChar(text[j])
    IN  w(i) # w(i + 1)

\* set_pattern(sequence).search(text): \b<sequence, literally>\b, ignoring case
PatternSearch(sequence, text) ==
    \E i \in 0..(Len(text) - Len(sequence)) :
        /\ WordBoundary(text, i)
        /\ \A k \in 1..Len(sequence) : Lower(text[i + k]) = Lower(sequence[k])
        /\ WordBoundary(text, i + Len(sequence))

\* the literal given to set_pattern in verify_pdf
SafetyDataSheet == <<"s","a","f","e","t","y"," ","d","a","t","a"," ","s","h","e","e","t">>

----------------------------------------------------------------------------
(* Documents a server may send.  A file holds the name of the document     *)
(* written to it; Pages gives the text of its pages.  Corrupt is a body    *)
(* that is no PDF at all.                                                  *)

Corrupt == "Corrupt"

\* the file as left by open(file_path, 'wb') before anything is written
EmptyFile == "empty"

\* phrase split over two pages, name and number present
DocFullPages ==
    << <<"S","A","F","E","T","Y"," ","D","A","T","A"," ">>,
       <<"S","H","E","E","T","\n","a","c","e","t","o","n","e"," ","5","0","-","0","0","-","0">> >>

\* the number only as part of a longer number: \b must reject it
DocNoCasPages == << <<"S","a","f","e","t","y"," ","D","a","t","a"," ","S","h","e","e","t"," ","A","c","e","t","o","n","e"," ","1","5","0","-","0","0","-","0">> >>

DocNoNamePages == << <<"s","a","f","e","t","y"," ","d","a","t","a"," ","s","h","e","e","t"," ","5","0","-","0","0","-","0">> >>

\* "datasheet" is not the phrase
DocNoPhrasePages == << <<"A","c","e","t","o","n","e"," ","5","0","-","0","0","-","0"," ","s","a","f","e","t","y"," ","d","a","t","a","s","h","e","e","t">> >>

\* everything required, but only on page 6
DocLatePages ==
    << <<>>, <<>>, <<>>, <<>>, <<>>,
       <<"S","a","f","e","t","y"," ","D","a","t","a"," ","S","h","e","e","t"," ","A","c","e","t","o","n","e"," ","5","0","-","0","0","-","0">> >>

Documents == {"DocFull", "DocNoCas", "DocNoName", "DocNoPhrase", "DocLate", Corrupt}

Pages(content) ==
    CASE content = "DocFull" -> DocFullPages
      [] content = "DocNoCas" -> DocNoCasPages
      [] content = "DocNoName" -> DocNoNamePages
      [] content = "DocNoPhrase" -> DocNoPhrasePages
      [] content = "DocLate" -> DocLatePages

RECURSIVE ConcatPages(_, _, _)
\* the loop of extract_text_from_pdf: text += page.get_text() while pageno <= 5
ConcatPages(doc, pageno, text) ==
    IF pageno > Len(doc) \/ pageno > PAGE_LIMIT THEN text
    ELSE ConcatPages(doc, pageno + 1, text \o doc[pageno])

\* extract_text_from_pdf(pdf_path) on the content found at that path;
\* fitz.open raises on a missing, empty or corrupt file and None is returned
extract_text_from_pdf(content) ==
    IF content \in {NoFile, EmptyFile, Corrupt} THEN None
    ELSE ConcatPages(Pages(content), 1, <<>>)

\* the patterns verify_pdf requires
RequiredPatterns(cas, name) ==
    {SafetyDataSheet}
      \cup (IF Truthy(cas) THEN {Chars(cas)} ELSE {})
      \cup (IF Truthy(name) THEN {Chars(name)} ELSE {})

\* verify_pdf with any() in place of all()
verify_pdf_any(content, cas, name) ==
    LET text == extract_text_from_pdf(content)
    IN  IF text = None THEN FALSE
        ELSE \E pattern \in RequiredPatterns(cas, name) :
                 PatternSearch(pattern, text)

\* verify_pdf requiring the phrase alone
verify_pdf_phrase_only(content, cas, name) ==
    LET text == extract_text_from_pdf(content)
    IN  IF text = None THEN FALSE
        ELSE PatternSearch(SafetyDataSheet, text)

\* verify_pdf(file_path, cas, name) on the content found at file_path
verify_pdf(content, cas, name) ==
    LET text == extract_text_from_pdf(content)
    IN  IF text = None THEN FALSE
        ELSE \A pattern \in RequiredPatterns(cas, name) :
                 PatternSearch(pattern, text)

----------------------------------------------------------------------------
(* Storage layout and the pure steps of the pipeline                       *)

TEMP_FOLDER == "unverified"

PDFS_FOLDER == "verified"

\* os.path.join(folder, file_name)
PathJoin(folder, file_name) == Str(Chars(folder) \o <<"/">> \o Chars(file_name))

\* os.path.basename(path)
Basename(path) == Str(LastSegment(Chars(path)))

\* download_pdf giving every temporary file the same name
FileName_fixed(url) == "s.pdf"

\* the name download_pdf gives the temporary file
FileName(url) ==
    LET file_name == LastSegment(Chars(url))
    IN  IF EndsWith(file_name, DotPdf) THEN Str(file_name)
        ELSE Str(file_name \o DotPdf)

\* the query download_and_verify_pdfs builds, None when it returns [] at once
Query(cas, name, url) ==
    IF Truthy(cas) THEN [by |-> "cas", arg |-> cas]
    ELSE IF Truthy(name) THEN [by |-> "name", arg |-> name]
    ELSE IF Truthy(url) THEN [by |-> "url", arg |-> url]
    ELSE [by |-> "none", arg |-> None]

\* Result of a call: a value, or an exception that leaves the function
Return(v) == [exc |-> FALSE, val |-> v]

Raise(e) == [exc |-> TRUE, val |-> e]

\* what a HEAD request can do: a declared content type, or an exception
HeadOutcomes == {"application/pdf", "text/html", "Timeout", "ConnectionError"}

\* is_pdf sends no request for a URL that ends in ".pdf"
HeadChoices(url) ==
    IF EndsWith(Chars(url), DotPdf) THEN {"no request"} ELSE HeadOutcomes

\* is_pdf without its except clauses
is_pdf_reraise(e) == Raise(e)

\* the two except clauses of is_pdf
is_pdf_except(e) == Return(FALSE)

\* is_pdf answering True whatever the probe says
is_pdf_always(url, head) == Return(TRUE)

\* is_pdf(url), given what calls.head does if it is called
is_pdf(url, head) ==
    IF EndsWith(Chars(url), DotPdf) THEN Return(TRUE)
    ELSE IF head \in {"Timeout", "ConnectionError"} THEN is_pdf_except(head)
    ELSE Return(head = "application/pdf")

\* what session.get can do: fail, answer with an error status, or answer
\* 200 with a declared content type
GetOutcomes == {"TimeoutError", "ClientError", "404", "text/html", "application/pdf"}

\* the except clause of download_pdf, followed by `return None`
download_pdf_except(e) == Return(None)

\* the admission test with > in place of >=
VisitLimitReached_gt(url_count, domain_count) ==
    url_count > MAX_URL_VISITS \/ domain_count > MAX_DOMAIN_VISITS

\* the admission test on the URL counter alone
VisitLimitReached_url_only(url_count, domain_count) ==
    url_count >= MAX_URL_VISITS

\* the admission test on the two visit counters
VisitLimitReached(url_count, domain_count) ==
    url_count >= MAX_URL_VISITS \/ domain_count >= MAX_DOMAIN_VISITS

\* the loop test with > in place of >=
DownloadLimitReached_gt(count) == count > DOWNLOAD_LIMIT

\* the loop test left out
DownloadLimitReached_never(count) == FALSE

\* the test that ends the candidate loop
DownloadLimitReached(count) == count >= DOWNLOAD_LIMIT

\* the dict add_report builds
ReportEntry(cas, name, filepath, verified, provider, url) ==
    [cas |-> cas, name |-> name, provider |-> provider,
     verified |-> verified, filepath |-> filepath, url |-> url]

\* add_report putting the entry in front
add_report_front(report_list, cas, name, filepath, verified, provider, url) ==
    <<ReportEntry(cas, name, filepath, verified, provider, url)>> \o report_list

\* add_report recording the file path as the provider
add_report_provider_path(report_list, cas, name, filepath, verified, provider, url) ==
    Append(report_list, ReportEntry(cas, name, filepath, verified, filepath, url))

\* add_report(report_list, ...)
add_report(report_list, cas, name, filepath, verified, provider, url) ==
    Append(report_list, ReportEntry(cas, name, filepath, verified, provider, url))

----------------------------------------------------------------------------
(* JSON: json.dumps gives the token stream of the text (white space and    *)
(* separators left out), json.loads parses a token stream                  *)

ReportKeys == <<"cas", "name", "provider", "verified", "filepath", "url">>

\* the tokens of one value
DumpValue(v) ==
    IF v = None THEN <<"lit", "null">>
    ELSE IF v = PyTrue THEN <<"lit", "true">>
    ELSE IF v = PyFalse THEN <<"lit", "false">>
    ELSE <<"str", v>>

RECURSIVE DumpMembers(_, _)
DumpMembers(entry, i) ==
    IF i > Len(ReportKeys) THEN <<>>
    ELSE << <<"key", ReportKeys[i]>>, DumpValue(entry[ReportKeys[i]]) >>
           \o DumpMembers(entry, i + 1)

RECURSIVE DumpItems(_, _)
DumpItems(report_list, i) ==
    IF i > Len(report_list) THEN <<>>
    ELSE << <<"punct", "{">> >> \o DumpMembers(report_list[i], 1)
           \o << <<"punct", "}">> >> \o DumpItems(report_list, i + 1)

\* json.dumps(report_list, indent=4)
json_dumps(report_list) ==
    << <<"punct", "[">> >> \o DumpItems(report_list, 1) \o << <<"punct", "]">> >>

LoadValue(tok) ==
    IF tok = <<"lit", "null">> THEN None
    ELSE IF tok = <<"lit", "true">> THEN PyTrue
    ELSE IF tok = <<"lit", "false">> THEN PyFalse
    ELSE tok[2]

\* position of the "}" that closes the object opened at position i
CloseOf(toks, i) == Min({j \in (i + 1)..Len(toks) : toks[j] = <<"punct", "}">>})

\* the object between positions i and j: each key token with the value after it
LoadObject(toks, i, j) ==
    LET keyPos == {k \in (i + 1)..(j - 1) : toks[k][1] = "key"}
    IN  [key \in {toks[k][2] : k \in keyPos} |->
            LoadValue(toks[(CHOOSE k \in keyPos : toks[k][2] = key) + 1])]

RECURSIVE LoadItems(_, _)
LoadItems(toks, i) ==
    IF toks[i] = <<"punct", "{">>
    THEN <<LoadObject(toks, i, CloseOf(toks, i))>>
           \o LoadItems(toks, CloseOf(toks, i) + 1)
    ELSE <<>>

\* json.loads(json_string); a truncated text raises JSONDecodeError
json_loads(toks) ==
    IF toks # <<>> /\ toks[Len(toks)] = <<"punct", "]">>
    THEN List(LoadItems(toks, 2))
    ELSE [kind |-> "JSONDecodeError", items |-> <<>>]

----------------------------------------------------------------------------
(* Inputs and the environment                                              *)

\* invocations of main in one process lifetime
MaxRuns == 2

\* responses, in one process lifetime, that differ from what the server of
\* the URL usually sends (see Usual)
MaxFaults == 2

\* callers of main: 1 alone, or 1 and 2 interleaved at the suspension points
Procs == {1, 2}

U1 == "http://a.io/s.pdf"

U2 == "http://a.io/d/s.pdf"

U3 == "http://b.io/doc"

U4 == "http://b.io/cart/s.pdf"

U5 == "http://x.com/s.pdf"

URLS == {U1, U2, U3, U4, U5}

Domains == {Str(Netloc(Chars(u))) : u \in URLS}

TempPaths == {PathJoin(TEMP_FOLDER, FileName(u)) : u \in URLS}

Paths == TempPaths \cup {PathJoin(PDFS_FOLDER, FileName(u)) : u \in URLS}

\* identifier records; a missing "urls" key and an empty list are both falsy
\* and appear as the empty list
Rec(cas, name, urls) == [cas |-> cas, name |-> name, urls |-> urls]

\* the input lists main is called with
Inputs ==
    { << Rec("50-00-0", None, <<>>) >>,
      << Rec(None, "Acetone", <<U1, U3>>), Rec("50-00-0", "Acetone", <<>>) >>,
      << Rec("", None, <<>>), Rec(None, None, <<U3, U3>>), Rec(None, "Acetone", <<>>) >> }

\* what the search collaborator may yield for a query: a finite ordered
\* sequence of URLs, possibly empty
search(query) ==
    CASE query.by = "cas" -> { <<>>, <<U4, U3, U5>> }
      [] query.by = "name" -> { <<U1, U2, U3>> }
      [] query.by = "url" -> { <<query.arg>> }

\* what the server of a URL usually answers to HEAD and GET, and the body it
\* usually sends; any other answer counts against MaxFaults
Usual(url) ==
    CASE url = U1 -> [head |-> "no request", get |-> "application/pdf", body |-> "DocFull"]
      [] url = U2 -> [head |-> "no request", get |-> "application/pdf", body |-> "DocNoName"]
      [] url = U3 -> [head |-> "application/pdf", get |-> "application/pdf", body |-> "DocNoCas"]
      [] url = U4 -> [head |-> "no request", get |-> "application/pdf", body |-> "DocFull"]
      [] url = U5 -> [head |-> "no request", get |-> "application/pdf", body |-> "DocFull"]

----------------------------------------------------------------------------
(* State                                                                   *)

VARIABLES
    URL_VISIT_COUNT,        \* process-wide dict url -> visits (0: no key)
    DOMAIN_VISIT_COUNT,     \* process-wide dict domain -> visits
    DOWNLOADED_FILES_COUNT, \* process-wide counter, reset by main
    files,                  \* path -> content, for the two PDF folders
    logs,                   \* per caller: the log file its invocation wrote
    running,                \* the coroutine holding the event loop, 0 if none
    runs,                   \* invocations of main started so far
    inv,                    \* per caller: locals of main and its callees
    obs,                    \* per caller: what its invocation has done
    calls,                  \* per URL: calls of is_pdf and download_pdf so far
    faults                  \* unusual responses so far

vars ==
    <<URL_VISIT_COUNT, DOMAIN_VISIT_COUNT, DOWNLOADED_FILES_COUNT, files, logs,
      running, runs, inv, obs, calls, faults>>

\* the environment answers `actual` where `usual` is the usual answer
Answer(usual, actual) ==
    /\ actual # usual => faults < MaxFaults
    /\ faults' = IF actual # usual THEN faults + 1 ELSE faults

NoLog == [exists |-> FALSE, text |-> <<>>]

\* pdf_file, the file object download_pdf holds open, is kept as the path at
\* which the file it refers to can now be found: the path it was opened at,
\* the path the file was renamed to since, or Unlinked when the file was
\* removed or replaced
Unlinked == "unlinked"

\* locals before main is called
InitInv ==
    [pc |-> "idle", input_data |-> <<>>, di |-> 0, ui |-> 0,
     report_list |-> <<>>, url_arg |-> None, results |-> <<>>, ri |-> 0,
     url |-> None, pdf_path |-> None, pdf_file |-> None,
     verified_pdfs |-> <<>>,
     ret |-> [kind |-> "none", items |-> <<>>], exc |-> None]

\* observations of one invocation
InitObs ==
    [attempts |-> 0, downloaded |-> 0, probed |-> 0, queries |-> <<>>,
     yielded |-> <<>>, promoted |-> <<>>, report_di |-> <<>>, opened |-> {},
     io |-> "none"]

Init ==
    /\ URL_VISIT_COUNT = [u \in URLS |-> 0]
    /\ DOMAIN_VISIT_COUNT = [d \in Domains |-> 0]
    /\ DOWNLOADED_FILES_COUNT = 0
    /\ files = [path \in Paths |-> NoFile]
    /\ logs = [p \in Procs |-> NoLog]
    /\ running = 0
    /\ runs = 0
    /\ inv = [p \in Procs |-> InitInv]
    /\ obs = [p \in Procs |-> InitObs]
    /\ calls = [u \in URLS |-> [is_pdf |-> 0, download_pdf |-> 0]]
    /\ faults = 0

\* the record main is working on, and the arguments of the current call
Data(p) == inv[p].input_data[inv[p].di]

Cas(p) == Data(p).cas

Name(p) == Data(p).name

Domain(p) == Str(Netloc(Chars(inv[p].url)))

----------------------------------------------------------------------------
(* main                                                                    *)

\* main without the reset of the download counter
Start_no_reset(p) ==
    /\ inv[p].pc \in {"idle", "done", "raised"}
    /\ running = 0
    /\ runs < MaxRuns
    /\ \E input_data \in Inputs :
           inv' = [inv EXCEPT ![p] = [InitInv EXCEPT !.pc = "for_data",
                                                     !.input_data = input_data,
                                                     !.di = 1]]
    /\ running' = p
    /\ runs' = runs + 1
    /\ obs' = [obs EXCEPT ![p] = InitObs]
    /\ logs' = [logs EXCEPT ![p] = NoLog]
    /\ UNCHANGED <<URL_VISIT_COUNT, DOMAIN_VISIT_COUNT, DOWNLOADED_FILES_COUNT,
                   files, calls, faults>>

\* main is called: the download counter is reset, the report list is empty.
\* A coroutine starts only when no other one holds the event loop.
Start(p) ==
    /\ inv[p].pc \in {"idle", "done", "raised"}
    /\ running = 0
    /\ runs < MaxRuns
    /\ \E input_data \in Inputs :
           inv' = [inv EXCEPT ![p] = [InitInv EXCEPT !.pc = "for_data",
                                                     !.input_data = input_data,
                                                     !.di = 1]]
    /\ DOWNLOADED_FILES_COUNT' = 0
    /\ running' = p
    /\ runs' = runs + 1
    /\ obs' = [obs EXCEPT ![p] = InitObs]
    /\ logs' = [logs EXCEPT ![p] = NoLog]
    /\ UNCHANGED <<URL_VISIT_COUNT, DOMAIN_VISIT_COUNT, files, calls, faults>>

\* `for data in input_data`: choose the branch for the record, or leave the
\* loop for save_report
ForData(p) ==
    /\ inv[p].pc = "for_data"
    /\ running = p
    /\ IF inv[p].di > Len(inv[p].input_data)
       THEN inv' = [inv EXCEPT ![p].pc = "save_report"]
       ELSE IF Data(p).urls # <<>>
       THEN inv' = [inv EXCEPT ![p].pc = "for_urls", ![p].ui = 1]
       ELSE IF Truthy(Cas(p)) \/ Truthy(Name(p))
       THEN inv' = [inv EXCEPT ![p].pc = "call", ![p].url_arg = None]
       ELSE inv' = [inv EXCEPT ![p].di = @ + 1]
    /\ UNCHANGED <<URL_VISIT_COUNT, DOMAIN_VISIT_COUNT, DOWNLOADED_FILES_COUNT,
                   files, logs, running, runs, obs, calls,
                   faults>>

\* `for url in urls`
ForUrls(p) ==
    /\ inv[p].pc = "for_urls"
    /\ running = p
    /\ IF inv[p].ui > Len(Data(p).urls)
       THEN inv' = [inv EXCEPT ![p].pc = "for_data", ![p].di = @ + 1]
       ELSE inv' = [inv EXCEPT ![p].pc = "call",
                               ![p].url_arg = Data(p).urls[inv[p].ui]]
    /\ UNCHANGED <<URL_VISIT_COUNT, DOMAIN_VISIT_COUNT, DOWNLOADED_FILES_COUNT,
                   files, logs, running, runs, obs, calls,
                   faults>>

----------------------------------------------------------------------------
(* download_and_verify_pdfs                                                *)

\* entry: build the query, return [] without one, else start the search
Call(p) ==
    /\ inv[p].pc = "call"
    /\ running = p
    /\ LET query == Query(Cas(p), Name(p), inv[p].url_arg)
       IN  IF query.by = "none"
           THEN /\ inv' = [inv EXCEPT ![p].pc = "add_reports",
                                      ![p].verified_pdfs = <<>>]
                /\ obs' = obs
           ELSE /\ \E results \in search(query) :
                       inv' = [inv EXCEPT ![p].pc = "for_url",
                                          ![p].verified_pdfs = <<>>,
                                          ![p].results = results,
                                          ![p].ri = 0]
                /\ obs' = [obs EXCEPT ![p].queries =
                                          Append(@, <<inv[p].di, query>>)]
    /\ UNCHANGED <<URL_VISIT_COUNT, DOMAIN_VISIT_COUNT, DOWNLOADED_FILES_COUNT,
                   files, logs, running, runs, calls, faults>>

\* `for url in search(...)`: pull the next candidate, then the download-limit
\* test that breaks out of the loop
ForUrl(p) ==
    /\ inv[p].pc = "for_url"
    /\ running = p
    /\ IF inv[p].ri >= Len(inv[p].results)
       THEN /\ inv' = [inv EXCEPT ![p].pc = "add_reports"]
            /\ obs' = obs
       ELSE LET url == inv[p].results[inv[p].ri + 1]
            IN  /\ inv' = [inv EXCEPT
                              ![p].url = url,
                              ![p].ri = @ + 1,
                              ![p].pc =
                                  IF DownloadLimitReached(DOWNLOADED_FILES_COUNT)
                                  THEN "add_reports" ELSE "skip_check"]
                /\ obs' = [obs EXCEPT ![p].yielded =
                                          Append(@, <<inv[p].di, url>>)]
    /\ UNCHANGED <<URL_VISIT_COUNT, DOMAIN_VISIT_COUNT, DOWNLOADED_FILES_COUNT,
                   files, logs, running, runs, calls, faults>>

\* the skip-word test
SkipCheck(p) ==
    /\ inv[p].pc = "skip_check"
    /\ running = p
    /\ inv' = [inv EXCEPT ![p].pc = IF MatchesSkipWords(Chars(inv[p].url))
                                    THEN "for_url" ELSE "visit_check"]
    /\ UNCHANGED <<URL_VISIT_COUNT, DOMAIN_VISIT_COUNT, DOWNLOADED_FILES_COUNT,
                   files, logs, running, runs, obs, calls,
                   faults>>

\* the two visit-limit tests, then the two increments
VisitCheck(p) ==
    /\ inv[p].pc = "visit_check"
    /\ running = p
    /\ IF VisitLimitReached(URL_VISIT_COUNT[inv[p].url], DOMAIN_VISIT_COUNT[Domain(p)])
       THEN /\ inv' = [inv EXCEPT ![p].pc = "for_url"]
            /\ UNCHANGED <<URL_VISIT_COUNT, DOMAIN_VISIT_COUNT>>
       ELSE /\ URL_VISIT_COUNT' = [URL_VISIT_COUNT EXCEPT ![inv[p].url] = @ + 1]
            /\ DOMAIN_VISIT_COUNT' = [DOMAIN_VISIT_COUNT EXCEPT ![Domain(p)] = @ + 1]
            /\ inv' = [inv EXCEPT ![p].pc = "is_pdf"]
    /\ UNCHANGED <<DOWNLOADED_FILES_COUNT, files, logs, running, runs, obs, calls,
                   faults>>

\* an exception leaves main: the coroutine ends with it
Raised(p, e) ==
    /\ inv' = [inv EXCEPT ![p].pc = "raised", ![p].exc = e]
    /\ running' = 0

\* `if is_pdf(url)`
IsPdf(p) ==
    /\ inv[p].pc = "is_pdf"
    /\ running = p
    /\ \E head \in HeadChoices(inv[p].url) :
           LET r == is_pdf(inv[p].url, head)
           IN  /\ Answer(Usual(inv[p].url).head, head)
               /\ IF r.exc THEN Raised(p, r.val)
                  ELSE /\ inv' = [inv EXCEPT ![p].pc = IF r.val THEN "download_pdf"
                                                       ELSE "for_url"]
                       /\ running' = running
    /\ obs' = [obs EXCEPT ![p].probed = @ + 1]
    /\ calls' = [calls EXCEPT ![inv[p].url].is_pdf = @ + 1]
    /\ UNCHANGED <<URL_VISIT_COUNT, DOMAIN_VISIT_COUNT, DOWNLOADED_FILES_COUNT,
                   files, logs, runs>>

----------------------------------------------------------------------------
(* download_pdf                                                            *)

\* download_pdf is called and suspends in session.get
DownloadPdf(p) ==
    /\ inv[p].pc = "download_pdf"
    /\ running = p
    /\ inv' = [inv EXCEPT ![p].pc = "await_get"]
    /\ running' = 0
    /\ obs' = [obs EXCEPT ![p].attempts = @ + 1]
    /\ calls' = [calls EXCEPT ![inv[p].url].download_pdf = @ + 1]
    /\ UNCHANGED <<URL_VISIT_COUNT, DOMAIN_VISIT_COUNT, DOWNLOADED_FILES_COUNT,
                   files, logs, runs, faults>>

\* session.get completes: raise_for_status, the content-type test, and
\* open(file_path, 'wb'); then the coroutine suspends in response.read
GetResponse(p) ==
    /\ inv[p].pc = "await_get"
    /\ running = 0
    /\ \E get \in GetOutcomes :
         /\ Answer(Usual(inv[p].url).get, get)
         /\ IF get = "application/pdf"
           THEN LET file_path == PathJoin(TEMP_FOLDER, FileName(inv[p].url))
                IN  /\ files' = [files EXCEPT ![file_path] = EmptyFile]
                    /\ inv' = [inv EXCEPT ![p].pc = "await_read",
                                          ![p].pdf_path = file_path,
                                          ![p].pdf_file = file_path]
                    /\ obs' = [obs EXCEPT ![p].opened = @ \cup {file_path}]
                    /\ running' = 0
           ELSE /\ UNCHANGED <<files, obs>>
                /\ IF get = "text/html"
                   THEN /\ inv' = [inv EXCEPT ![p].pc = "for_url",
                                              ![p].pdf_path = None]
                        /\ running' = p
                   ELSE LET r == download_pdf_except(get)
                        IN  IF r.exc THEN Raised(p, r.val)
                            ELSE /\ inv' = [inv EXCEPT ![p].pc = "for_url",
                                                       ![p].pdf_path = r.val]
                                 /\ running' = p
    /\ UNCHANGED <<URL_VISIT_COUNT, DOMAIN_VISIT_COUNT, DOWNLOADED_FILES_COUNT,
                   logs, runs, calls>>

\* what response.read can do: fail, or deliver the body
ReadOutcomes == Documents \cup {"TimeoutError"}

\* what pdf_file.write(body) leaves in a file that holds `old`: the body,
\* or, when another file object has written to the same file since this one
\* was opened, the body followed by what remains of the longer old content
Written(old, body) ==
    IF old \in {EmptyFile, body} THEN {body} ELSE {body, Corrupt}

\* response.read completes: the body is written through pdf_file and the
\* counter incremented, or the exception is caught with the file already
\* created; either way the with block closes pdf_file
ReadBody(p) ==
    /\ inv[p].pc = "await_read"
    /\ running = 0
    /\ \E body \in ReadOutcomes :
         /\ Answer(Usual(inv[p].url).body, body)
         /\ IF body \in Documents
            THEN /\ IF inv[p].pdf_file = Unlinked THEN files' = files
                    ELSE \E content \in Written(files[inv[p].pdf_file], body) :
                             files' = [files EXCEPT ![inv[p].pdf_file] = content]
                 /\ DOWNLOADED_FILES_COUNT' = DOWNLOADED_FILES_COUNT + 1
                 /\ inv' = [inv EXCEPT ![p].pc = "verify_pdf",
                                       ![p].pdf_file = None]
                 /\ obs' = [obs EXCEPT ![p].downloaded = @ + 1]
                 /\ running' = p
            ELSE /\ UNCHANGED <<files, DOWNLOADED_FILES_COUNT, obs>>
                 /\ LET r == download_pdf_except(body)
                    IN  IF r.exc THEN Raised(p, r.val)
                        ELSE /\ inv' = [inv EXCEPT ![p].pc = "for_url",
                                                   ![p].pdf_path = r.val,
                                                   ![p].pdf_file = None]
                             /\ running' = p
    /\ UNCHANGED <<URL_VISIT_COUNT, DOMAIN_VISIT_COUNT, logs, runs, calls>>

----------------------------------------------------------------------------
(* verification, promotion or deletion, and the report                     *)

\* the open file objects after the file at `src` was renamed to `dst`
\* (os.rename replaces a file at dst) or removed (dst = Unlinked)
Relinked(locals, src, dst) ==
    [q \in Procs |->
        [locals[q] EXCEPT !.pdf_file = IF @ = src THEN dst
                                       ELSE IF @ = dst /\ @ # None THEN Unlinked
                                       ELSE @]]

\* `if pdf_path`: verify_pdf, then os.rename into the verified folder or
\* os.remove; with no file at pdf_path verify_pdf returns False and
\* os.remove raises FileNotFoundError
VerifyPdf(p) ==
    /\ inv[p].pc = "verify_pdf"
    /\ running = p
    /\ LET pdf_path == inv[p].pdf_path
           verified == verify_pdf(files[pdf_path], Cas(p), Name(p))
           new_file_path == PathJoin(PDFS_FOLDER, Basename(pdf_path))
       IN  IF files[pdf_path] = NoFile
           THEN /\ Raised(p, "FileNotFoundError")
                /\ UNCHANGED <<files, obs>>
           ELSE IF verified
           THEN /\ files' = [files EXCEPT ![new_file_path] = files[pdf_path],
                                          ![pdf_path] = NoFile]
                /\ inv' = Relinked(
                              [inv EXCEPT
                                  ![p].pc = "for_url",
                                  ![p].verified_pdfs =
                                      Append(@, <<inv[p].url, new_file_path>>)],
                              pdf_path, new_file_path)
                /\ obs' = [obs EXCEPT ![p].promoted =
                                          Append(@, <<inv[p].di, inv[p].url>>)]
                /\ running' = running
           ELSE /\ files' = [files EXCEPT ![pdf_path] = NoFile]
                /\ inv' = Relinked([inv EXCEPT ![p].pc = "for_url"],
                                   pdf_path, Unlinked)
                /\ obs' = obs
                /\ running' = running
    /\ UNCHANGED <<URL_VISIT_COUNT, DOMAIN_VISIT_COUNT, DOWNLOADED_FILES_COUNT,
                   logs, runs, calls, faults>>

RECURSIVE AddReports(_, _, _, _, _)
\* `for url, path in verified_pdfs: add_report(report_list, cas, name, path,
\* True, url, url)`
AddReports(report_list, cas, name, verified_pdfs, i) ==
    IF i > Len(verified_pdfs) THEN report_list
    ELSE AddReports(add_report(report_list, cas, name, verified_pdfs[i][2],
                               PyTrue, verified_pdfs[i][1], verified_pdfs[i][1]),
                    cas, name, verified_pdfs, i + 1)

\* download_and_verify_pdfs has returned: main adds the report entries and
\* goes on with the next URL of the list, or the next record
Collect(p) ==
    /\ inv[p].pc = "add_reports"
    /\ running = p
    /\ inv' = [inv EXCEPT
                  ![p].report_list =
                      AddReports(@, Cas(p), Name(p), inv[p].verified_pdfs, 1),
                  ![p].pc = IF Data(p).urls # <<>> THEN "for_urls" ELSE "for_data",
                  ![p].ui = IF Data(p).urls # <<>> THEN @ + 1 ELSE @,
                  ![p].di = IF Data(p).urls # <<>> THEN @ ELSE @ + 1]
    /\ obs' = [obs EXCEPT ![p].report_di =
                   @ \o [i \in 1..Len(inv[p].verified_pdfs) |-> inv[p].di]]
    /\ UNCHANGED <<URL_VISIT_COUNT, DOMAIN_VISIT_COUNT, DOWNLOADED_FILES_COUNT,
                   files, logs, running, runs, calls, faults>>

\* what writing the log file can do: succeed, fail in open, or fail in
\* write with `written` tokens on disk
WriteOutcomes(json_string) ==
    {[fail |-> "none", written |-> Len(json_string)],
     [fail |-> "open", written |-> 0]}
      \cup {[fail |-> "write", written |-> k] : k \in 0..(Len(json_string) - 1)}

\* the except clause handing the exception on to the caller
save_report_except_reraise(e) == [kind |-> e, items |-> <<>>]

\* the except clause of save_report, followed by `return {}`
save_report_except(e) == EmptyDict

\* save_report returning the report also when writing the file failed
save_report_keeps_result(report_list, io) ==
    IF report_list # <<>>
    THEN LET json_string == json_dumps(report_list)
         IN  [log |-> IF io.fail = "open" THEN NoLog
                      ELSE [exists |-> TRUE,
                            text |-> SubSeq(json_string, 1, io.written)],
              ret |-> json_loads(json_string)]
    ELSE [log |-> NoLog, ret |-> EmptyDict]

\* save_report(report_list): the log file it leaves and the value it returns
save_report(report_list, io) ==
    IF report_list # <<>>
    THEN LET json_string == json_dumps(report_list)
         IN  IF io.fail = "none"
             THEN [log |-> [exists |-> TRUE, text |-> json_string],
                   ret |-> json_loads(json_string)]
             ELSE [log |-> IF io.fail = "open" THEN NoLog
                           ELSE [exists |-> TRUE,
                                 text |-> SubSeq(json_string, 1, io.written)],
                   ret |-> save_report_except(io.fail)]
    ELSE [log |-> NoLog, ret |-> EmptyDict]

\* `return save_report(report_list)`: main is complete
SaveReport(p) ==
    /\ inv[p].pc = "save_report"
    /\ running = p
    /\ \E io \in WriteOutcomes(json_dumps(inv[p].report_list)) :
           LET r == save_report(inv[p].report_list, io)
           IN  /\ logs' = [logs EXCEPT ![p] = r.log]
               /\ inv' = [inv EXCEPT ![p].pc = "done", ![p].ret = r.ret]
               /\ obs' = [obs EXCEPT ![p].io = io.fail]
    /\ running' = 0
    /\ UNCHANGED <<URL_VISIT_COUNT, DOMAIN_VISIT_COUNT, DOWNLOADED_FILES_COUNT,
                   files, runs, calls, faults>>

----------------------------------------------------------------------------
(* Specifications                                                          *)

Step(p) ==
    \/ Start(p)
    \/ ForData(p)
    \/ ForUrls(p)
    \/ Call(p)
    \/ ForUrl(p)
    \/ SkipCheck(p)
    \/ VisitCheck(p)
    \/ IsPdf(p)
    \/ DownloadPdf(p)
    \/ GetResponse(p)
    \/ ReadBody(p)
    \/ VerifyPdf(p)
    \/ Collect(p)
    \/ SaveReport(p)

\* one caller: invocations of main follow one another
Next == Step(1)

Spec == Init /\ [][Next]_vars

\* what the HTTP route calls main with: a one-record list holding the
\* path parameter as registry number or as name
Requests ==
    { << Rec("50-00-0", None, <<>>) >>, << Rec(None, "Acetone", <<>>) >> }

\* a request arrives while the event loop is free: run_scout calls main.
\* Each caller is one request, and caller 1 is the one that arrives first.
StartRequest(p) ==
    /\ inv[p].pc = "idle"
    /\ \A q \in Procs : q < p => inv[q].pc # "idle"
    /\ running = 0
    /\ runs < MaxRuns
    /\ \E input_data \in Requests :
           inv' = [inv EXCEPT ![p] = [InitInv EXCEPT !.pc = "for_data",
                                                     !.input_data = input_data,
                                                     !.di = 1]]
    /\ DOWNLOADED_FILES_COUNT' = 0
    /\ running' = p
    /\ runs' = runs + 1
    /\ obs' = [obs EXCEPT ![p] = InitObs]
    /\ logs' = [logs EXCEPT ![p] = NoLog]
    /\ UNCHANGED <<URL_VISIT_COUNT, DOMAIN_VISIT_COUNT, files, calls, faults>>

\* two requests on one event loop: an invocation runs until it suspends in
\* session.get or response.read, and then either may go on
NextConc ==
    \E p \in Procs :
        \/ StartRequest(p)
        \/ ForData(p)
        \/ Call(p)
        \/ ForUrl(p)
        \/ SkipCheck(p)
        \/ VisitCheck(p)
        \/ IsPdf(p)
        \/ DownloadPdf(p)
        \/ GetResponse(p)
        \/ ReadBody(p)
        \/ VerifyPdf(p)
        \/ Collect(p)
        \/ SaveReport(p)

SpecConc == Init /\ [][NextConc]_vars

----------------------------------------------------------------------------
(* Properties                                                              *)

\* an invocation of p is under way (main has been called and has not ended)
Active(p) == inv[p].pc \notin {"idle", "done", "raised"}

\* text contains a case-insensitive whole-word match of the string s
HasWord(text, s) == PatternSearch(Chars(s), text)

\* C1: whenever a document is promoted into the verified folder, the text
\* extracted from it matches the phrase "safety data sheet", and the registry
\* number if one was supplied, and the name if one was supplied, all at once.
C1_PromotedMatchesAll ==
    [][\A p \in Procs :
          Len(obs'[p].promoted) > Len(obs[p].promoted) =>
              LET path == PathJoin(PDFS_FOLDER, FileName(inv[p].url))
                  text == extract_text_from_pdf(files'[path])
              IN  /\ files'[path] # NoFile
                  /\ text # None
                  /\ PatternSearch(SafetyDataSheet, text)
                  /\ Truthy(Cas(p)) => HasWord(text, Cas(p))
                  /\ Truthy(Name(p)) => HasWord(text, Name(p))]_vars

\* a document was promoted for a record that supplies both number and name
C1_Witness ==
    \E p \in Procs :
        /\ Active(p)
        /\ inv[p].di <= Len(inv[p].input_data)
        /\ Truthy(Cas(p)) /\ Truthy(Name(p))
        /\ \E i \in 1..Len(obs[p].promoted) : obs[p].promoted[i][1] = inv[p].di

\* C2 as claimed: in one invocation download_pdf is called at most 5 times,
\* failed calls included.
C2_AttemptsWithinLimit ==
    \A p \in Procs : obs[p].attempts <= DOWNLOAD_LIMIT

\* C2 amended: in one invocation at most 5 calls of download_pdf succeed.
C2_DownloadsWithinLimit ==
    \A p \in Procs : obs[p].downloaded <= DOWNLOAD_LIMIT

\* five downloads succeeded after more than five attempts
C2_Witness ==
    \E p \in Procs :
        obs[p].downloaded = DOWNLOAD_LIMIT /\ obs[p].attempts > DOWNLOAD_LIMIT

\* calls of is_pdf / download_pdf so far for the URLs of a domain
RECURSIVE SumOver(_, _)
SumOver(f, S) ==
    IF S = {} THEN 0
    ELSE LET x == CHOOSE x \in S : TRUE
         IN  f[x] + SumOver(f, S \ {x})

\* the domain of each URL of the model
DomainOf == [u \in URLS |-> Str(Netloc(Chars(u)))]

UrlsOf == [d \in Domains |-> {u \in URLS : DomainOf[u] = d}]

ProbesOf(d) == SumOver([u \in URLS |-> calls[u].is_pdf], UrlsOf[d])

FetchesOf(d) == SumOver([u \in URLS |-> calls[u].download_pdf], UrlsOf[d])

\* C3: over the process lifetime the visit counts never decrease, are never
\* reset and never exceed 5; no URL and no domain is probed or fetched more
\* than 5 times; a candidate whose URL count or domain count is 5 is passed
\* over, in any invocation.
C3_VisitCountsCapped ==
    [][/\ \A u \in URLS :
            /\ URL_VISIT_COUNT'[u] >= URL_VISIT_COUNT[u]
            /\ URL_VISIT_COUNT'[u] <= 5
            /\ calls'[u].is_pdf <= 5 /\ calls'[u].download_pdf <= 5
       /\ \A d \in Domains :
            /\ DOMAIN_VISIT_COUNT'[d] >= DOMAIN_VISIT_COUNT[d]
            /\ DOMAIN_VISIT_COUNT'[d] <= 5
            /\ ProbesOf(d)' <= 5 /\ FetchesOf(d)' <= 5
       /\ \A p \in Procs :
            /\ inv[p].pc = "visit_check" /\ inv'[p] # inv[p]
            /\ \/ URL_VISIT_COUNT[inv[p].url] = 5
               \/ DOMAIN_VISIT_COUNT[DomainOf[inv[p].url]] = 5
            => /\ inv'[p].pc = "for_url"
               /\ UNCHANGED <<URL_VISIT_COUNT, DOMAIN_VISIT_COUNT, calls>>]_vars

\* in a second or later invocation, a candidate arrives whose URL count is
\* at 5, and one whose domain count is at 5 while its own count is not
C3_Witness ==
    \E p \in Procs :
        /\ runs >= 2
        /\ inv[p].pc = "visit_check"
        /\ URL_VISIT_COUNT[inv[p].url] = 5
        /\ \E u \in URLS : URL_VISIT_COUNT[u] < 5
                             /\ DOMAIN_VISIT_COUNT[DomainOf[u]] = 5

\* the URL, or its domain, contains one of the skip words
ContainsSkipWord(u) ==
    \E w \in SKIP_URLS : IsSubstr(w, Chars(u)) \/ IsSubstr(w, Netloc(Chars(u)))

\* the URLs of the model that contain a skip word
SkipListed == {u \in URLS : ContainsSkipWord(u)}

\* C4: a URL whose domain or text contains a skip word is never passed to
\* is_pdf nor to download_pdf.
C4_SkipListedNeverProbed ==
    /\ \A u \in SkipListed : calls[u].is_pdf = 0 /\ calls[u].download_pdf = 0
    /\ \A p \in Procs :
           inv[p].pc \in {"is_pdf", "download_pdf", "await_get", "await_read", "verify_pdf"}
               => inv[p].url \notin SkipListed

\* a URL with a skip word in its path only, and one with a skip word in its
\* domain, were yielded and passed over
C4_Witness ==
    \E p \in Procs :
        /\ inv[p].pc = "add_reports"
        /\ \E i, j \in 1..Len(obs[p].yielded) :
               /\ obs[p].yielded[i][2] = U4
               /\ obs[p].yielded[j][2] = U5
        /\ inv[p].url = U5

\* C5 as claimed: when main is complete, no temporary file that the
\* invocation opened for writing is left in the temporary folder.
C5_NoTempFileLeft ==
    \A p \in Procs :
        inv[p].pc = "done" => \A path \in obs[p].opened : files[path] = NoFile

\* C6 as claimed: when main is complete, the log file of the invocation
\* exists and parses back to the structure main returned, also for an empty
\* report list and when writing failed.
C6_LogEqualsResult ==
    \A p \in Procs :
        inv[p].pc = "done" =>
            logs[p].exists /\ json_loads(logs[p].text) = inv[p].ret

\* C6 amended: when the report list is not empty and the log file is written
\* without error, the log file parses back to the structure main returned;
\* and main returns a non-empty structure only then.
C6_LogEqualsResultWhenWritten ==
    \A p \in Procs :
        inv[p].pc = "done" =>
            /\ inv[p].report_list # <<>> /\ obs[p].io = "none" =>
                   /\ logs[p].exists
                   /\ json_loads(logs[p].text) = inv[p].ret
                   /\ inv[p].ret # EmptyDict
            /\ inv[p].ret # EmptyDict =>
                   logs[p].exists /\ json_loads(logs[p].text) = inv[p].ret

\* a report with two entries, one of them with a null field, was written
C6_Witness ==
    \E p \in Procs :
        /\ inv[p].pc = "done"
        /\ Len(inv[p].report_list) >= 2
        /\ inv[p].report_list[1].cas = None
        /\ obs[p].io = "none"
        /\ logs[p].exists

\* C7: once the download counter is at the limit during an invocation, no
\* further candidate of that invocation is probed or fetched, whichever
\* record it belongs to.
C7_NoProbeAfterLimit ==
    [][\A p \in Procs :
          Active(p) /\ DOWNLOADED_FILES_COUNT >= DOWNLOAD_LIMIT =>
              /\ obs'[p].probed = obs[p].probed
              /\ obs'[p].attempts = obs[p].attempts
              /\ inv'[p].pc \notin {"skip_check", "visit_check", "is_pdf",
                                    "download_pdf", "await_get"}]_vars

\* with the counter at the limit, a candidate of a later record was pulled
\* and passed over
C7_Witness ==
    \E p \in Procs :
        /\ DOWNLOADED_FILES_COUNT = DOWNLOAD_LIMIT
        /\ inv[p].pc = "add_reports"
        /\ inv[p].di >= 2
        /\ obs[p].yielded # <<>>
        /\ obs[p].yielded[Len(obs[p].yielded)][1] = inv[p].di
        /\ obs[p].downloaded = DOWNLOAD_LIMIT

\* C8 as claimed: for a record with an explicit URL list the search
\* collaborator is not queried, and the URL that is probed and fetched is the
\* listed URL itself.
C8_SearchBypassedForUrlList ==
    \A p \in Procs :
        /\ \A i \in 1..Len(obs[p].queries) :
               inv[p].input_data[obs[p].queries[i][1]].urls = <<>>
        /\ inv[p].pc \in {"is_pdf", "download_pdf", "await_get"}
             /\ Data(p).urls # <<>> => inv[p].url = inv[p].url_arg

\* C9: a failure of one candidate's stage raises no error out of main: the
\* candidate is dropped with the report unchanged and the loop goes on with
\* the next candidate; main never ends with an exception, and it ends only
\* by returning from save_report.
C9_StageFailureSkipsCandidate ==
    [][\A p \in Procs :
          /\ inv'[p].pc # "raised"
          /\ /\ inv[p].pc \in {"is_pdf", "await_get", "await_read", "verify_pdf"}
             /\ inv'[p] # inv[p]
             /\ inv'[p].pc \notin {"download_pdf", "await_read", "verify_pdf"}
             /\ Len(obs'[p].promoted) = Len(obs[p].promoted)
             => /\ inv'[p].pc = "for_url"
                /\ inv'[p].report_list = inv[p].report_list
                /\ inv'[p].verified_pdfs = inv[p].verified_pdfs
          /\ Active(p) /\ ~Active(p)' => inv[p].pc = "save_report"]_vars

\* an invocation in which a fetch failed and a downloaded document was not
\* verified is complete
C9_Witness ==
    \E p \in Procs :
        /\ inv[p].pc = "done"
        /\ obs[p].attempts > obs[p].downloaded
        /\ obs[p].downloaded > Len(obs[p].promoted)

RECURSIVE IsSubseq(_, _)
\* s is a subsequence of t
IsSubseq(s, t) ==
    IF s = <<>> THEN TRUE
    ELSE IF t = <<>> THEN FALSE
    ELSE IF Head(s) = Head(t) THEN IsSubseq(Tail(s), Tail(t))
    ELSE IsSubseq(s, Tail(t))

\* the report entries as <<index of the record, url>>
ReportPairs(p) ==
    [i \in 1..Len(inv[p].report_list) |->
        <<obs[p].report_di[i], inv[p].report_list[i].url>>]

\* the documents verified in the call under way and not yet in the report
PendingPairs(p) ==
    IF inv[p].pc \in {"for_data", "for_urls", "call", "save_report", "done"} THEN <<>>
    ELSE [i \in 1..Len(inv[p].verified_pdfs) |->
             <<inv[p].di, inv[p].verified_pdfs[i][1]>>]

\* C10: the report entries, followed by the documents verified in the call
\* under way, are the promoted documents in the order of their promotion;
\* that order is a subsequence of the order in which the search collaborator
\* yielded the candidates, record by record.
C10_ReportInPromotionOrder ==
    \A p \in Procs :
        /\ Len(obs[p].report_di) = Len(inv[p].report_list)
        /\ ReportPairs(p) \o PendingPairs(p) = obs[p].promoted
        /\ IsSubseq(ReportPairs(p), obs[p].yielded)
        /\ \A i, j \in 1..Len(obs[p].report_di) :
               i < j => obs[p].report_di[i] <= obs[p].report_di[j]

\* a complete report with entries of two records, with different URLs for
\* one of them, and with a candidate that was not promoted
C10_Witness ==
    \E p \in Procs :
        /\ inv[p].pc = "done"
        /\ Len(obs[p].yielded) > Len(inv[p].report_list)
        /\ \E i, j, k \in 1..Len(inv[p].report_list) :
               /\ obs[p].report_di[i] < obs[p].report_di[j]
               /\ obs[p].report_di[j] = obs[p].report_di[k]
               /\ inv[p].report_list[j].url # inv[p].report_list[k].url

\* C11: the report holds exactly one entry per promoted document, in the
\* same order, and none for any other candidate; every entry has verified
\* true, a file path in the verified folder, provider and url equal to the
\* source URL of the document, and the cas and name of the record that was
\* being processed.
C11_OneEntryPerPromoted ==
    \A p \in Procs :
        /\ Len(inv[p].report_list) + Len(PendingPairs(p)) = Len(obs[p].promoted)
        /\ \A i \in 1..Len(inv[p].report_list) :
               LET entry == inv[p].report_list[i]
                   di == obs[p].promoted[i][1]
                   url == obs[p].promoted[i][2]
               IN  /\ entry.verified = PyTrue
                   /\ entry.filepath = PathJoin(PDFS_FOLDER, FileName(url))
                   /\ entry.provider = url
                   /\ entry.url = url
                   /\ entry.cas = inv[p].input_data[di].cas
                   /\ entry.name = inv[p].input_data[di].name

\* a complete report with an entry for a record with a number and one for a
\* record without, while more candidates were yielded than promoted
C11_Witness ==
    \E p \in Procs :
        /\ inv[p].pc = "done"
        /\ Len(obs[p].yielded) > Len(obs[p].promoted)
        /\ \E i, j \in 1..Len(inv[p].report_list) :
               /\ inv[p].report_list[i].cas = None
               /\ inv[p].report_list[j].cas = "50-00-0"

\* C12: when writing the log file of a non-empty report list fails, in open
\* or in write, main still completes and returns the empty structure {}.
C12_WriteFailureReturnsEmpty ==
    \A p \in Procs :
        obs[p].io # "none" /\ inv[p].report_list # <<>> =>
            inv[p].pc = "done" /\ inv[p].ret = EmptyDict

\* an invocation with two report entries is complete after a write that
\* failed with part of the text on disk
C12_Witness ==
    \E p \in Procs :
        /\ inv[p].pc = "done"
        /\ Len(inv[p].report_list) >= 2
        /\ obs[p].io = "write"
        /\ logs[p].exists /\ logs[p].text # <<>>
        /\ inv[p].ret = EmptyDict

\* the record has no registry number, no name and no URL list
Unidentified(data) ==
    data.cas \in {None, ""} /\ data.name \in {None, ""} /\ data.urls = <<>>

\* C13: a record with no registry number, no name and no URL list is
\* skipped: main goes on with the next record, and nothing else changes (no
\* report entry, no query, no probe or fetch, no counter); no query, no
\* candidate and no promotion ever belongs to such a record.
C13_UnidentifiedRecordSkipped ==
    [][\A p \in Procs :
          /\ /\ inv[p].pc = "for_data"
             /\ inv[p].di <= Len(inv[p].input_data)
             /\ Unidentified(inv[p].input_data[inv[p].di])
             /\ inv'[p] # inv[p]
             => /\ inv'[p] = [inv[p] EXCEPT !.di = @ + 1]
                /\ UNCHANGED <<URL_VISIT_COUNT, DOMAIN_VISIT_COUNT,
                               DOWNLOADED_FILES_COUNT, files, logs, obs, calls>>
          /\ \A i \in 1..Len(obs'[p].queries) :
                 ~Unidentified(inv'[p].input_data[obs'[p].queries[i][1]])
          /\ \A i \in 1..Len(obs'[p].yielded) :
                 ~Unidentified(inv'[p].input_data[obs'[p].yielded[i][1]])]_vars

\* an invocation whose first record was skipped is complete with a report
\* entry for a later record
C13_Witness ==
    \E p \in Procs :
        /\ inv[p].pc = "done"
        /\ Unidentified(inv[p].input_data[1])
        /\ inv[p].report_list # <<>>

\* C14: admission is all or nothing: a candidate whose URL count or domain
\* count is at 5 is rejected with every counter unchanged; any other
\* candidate has its URL count and its domain count incremented by exactly 1
\* and nothing else; the skip-word test changes no counter, and no other
\* step changes a visit counter.
C14_AdmissionAllOrNothing ==
    [][/\ \A p \in Procs :
            /\ inv[p].pc = "visit_check" /\ inv'[p] # inv[p] =>
                   LET url == inv[p].url
                       domain == DomainOf[url]
                   IN  /\ DOWNLOADED_FILES_COUNT' = DOWNLOADED_FILES_COUNT
                       /\ IF URL_VISIT_COUNT[url] >= 5 \/ DOMAIN_VISIT_COUNT[domain] >= 5
                          THEN /\ inv'[p].pc = "for_url"
                               /\ URL_VISIT_COUNT' = URL_VISIT_COUNT
                               /\ DOMAIN_VISIT_COUNT' = DOMAIN_VISIT_COUNT
                          ELSE /\ inv'[p].pc = "is_pdf"
                               /\ URL_VISIT_COUNT' =
                                      [URL_VISIT_COUNT EXCEPT ![url] = @ + 1]
                               /\ DOMAIN_VISIT_COUNT' =
                                      [DOMAIN_VISIT_COUNT EXCEPT ![domain] = @ + 1]
            /\ inv[p].pc = "skip_check" /\ inv'[p] # inv[p] =>
                   UNCHANGED <<URL_VISIT_COUNT, DOMAIN_VISIT_COUNT,
                               DOWNLOADED_FILES_COUNT>>
       /\ URL_VISIT_COUNT' # URL_VISIT_COUNT \/ DOMAIN_VISIT_COUNT' # DOMAIN_VISIT_COUNT
              => \E p \in Procs : inv[p].pc = "visit_check" /\ inv'[p].pc = "is_pdf"]_vars

\* a candidate stands before the admission test with its domain count at 5
\* and its own count below 5, each earlier admission having led to a probe
C14_Witness ==
    \E p \in Procs :
        /\ inv[p].pc = "visit_check"
        /\ URL_VISIT_COUNT[inv[p].url] \in 1..4
        /\ DOMAIN_VISIT_COUNT[DomainOf[inv[p].url]] = 5
        /\ calls[inv[p].url].is_pdf = URL_VISIT_COUNT[inv[p].url]

\* the URLs that end in ".pdf"
PdfSuffixed == {u \in URLS : EndsWith(Chars(u), DotPdf)}

\* C15: within one invocation the candidates are pulled one at a time in the
\* order the search yielded them, and each passes the stages in the order
\* skip-word test, admission, probe, fetch, verification, promotion or
\* deletion: a probe follows an admission, a fetch follows a positive probe,
\* verification follows a successful fetch, a file is promoted or deleted
\* only by verification, and the next candidate is pulled only when the
\* current one has reached the end of a stage that drops or settles it.
C15_StagesInOrder ==
    [][\A p \in Procs :
          inv'[p] # inv[p] /\ inv[p].pc \notin {"idle", "done", "raised"} =>
              /\ inv'[p].pc = "skip_check" =>
                     /\ inv[p].pc = "for_url"
                     /\ inv'[p].ri = inv[p].ri + 1
                     /\ inv'[p].url = inv[p].results[inv'[p].ri]
                     /\ obs'[p].yielded = Append(obs[p].yielded, <<inv[p].di, inv'[p].url>>)
              /\ obs'[p].yielded # obs[p].yielded => inv[p].pc = "for_url"
              /\ inv'[p].pc = "for_url" =>
                     inv[p].pc \in {"call", "skip_check", "visit_check", "is_pdf",
                                    "await_get", "await_read", "verify_pdf"}
              /\ inv'[p].pc = "visit_check" => inv[p].pc = "skip_check"
              /\ inv'[p].pc = "is_pdf" =>
                     /\ inv[p].pc = "visit_check"
                     /\ URL_VISIT_COUNT'[inv[p].url] = URL_VISIT_COUNT[inv[p].url] + 1
              /\ obs'[p].probed # obs[p].probed => inv[p].pc = "is_pdf"
              /\ inv'[p].pc = "download_pdf" =>
                     /\ inv[p].pc = "is_pdf"
                     /\ obs'[p].probed = obs[p].probed + 1
                     /\ \/ inv[p].url \in PdfSuffixed
                        \/ Usual(inv[p].url).head = "application/pdf" /\ faults' = faults
              /\ inv'[p].pc = "await_get" =>
                     inv[p].pc = "download_pdf" /\ obs'[p].attempts = obs[p].attempts + 1
              /\ inv'[p].pc = "await_read" => inv[p].pc = "await_get"
              /\ inv'[p].pc = "verify_pdf" =>
                     /\ inv[p].pc = "await_read"
                     /\ obs'[p].downloaded = obs[p].downloaded + 1
              /\ obs'[p].promoted # obs[p].promoted => inv[p].pc = "verify_pdf"
              /\ inv'[p].url = inv[p].url \/ inv[p].pc = "for_url"]_vars

\* in an invocation in which a probe has dropped a candidate, a candidate of
\* the search under way was promoted and the third one has been pulled
C15_Witness ==
    \E p \in Procs :
        /\ inv[p].pc = "skip_check"
        /\ inv[p].ri = 3
        /\ obs[p].probed > obs[p].attempts
        /\ inv[p].verified_pdfs # <<>>

\* the text of the document matches the phrase and the identifiers supplied
MatchesAll(content, cas, name) ==
    LET text == extract_text_from_pdf(content)
    IN  /\ text # None
        /\ PatternSearch(SafetyDataSheet, text)
        /\ Truthy(cas) => HasWord(text, cas)
        /\ Truthy(name) => HasWord(text, name)

\* the file in the verified folder that a candidate URL is promoted to
VerifiedPath == [u \in URLS |-> PathJoin(PDFS_FOLDER, FileName(u))]

\* C16 as claimed: after verification the downloaded document is either
\* promoted (a file of its name in the verified folder, none in the temporary
\* folder) or deleted (no file of its name in either folder).
C16_PromotedOrAbsentFromBoth ==
    [][\A p \in Procs :
          inv[p].pc = "verify_pdf" /\ inv'[p] # inv[p] =>
              /\ files'[inv[p].pdf_path] = NoFile
              /\ \/ /\ Len(obs'[p].promoted) = Len(obs[p].promoted) + 1
                    /\ files'[VerifiedPath[inv[p].url]] # NoFile
                 \/ /\ obs'[p].promoted = obs[p].promoted
                    /\ files'[VerifiedPath[inv[p].url]] = NoFile]_vars

\* C16 amended: after verification, and before the next candidate is pulled,
\* the downloaded document is either promoted, when it matches (it is the
\* file of its name in the verified folder, and the temporary file is gone),
\* or deleted, when it does not (the temporary file is gone and the verified
\* folder is as it was, so a file of the same name promoted earlier stays);
\* never both and never neither.
C16_PromotedOrDeleted ==
    [][\A p \in Procs :
          inv[p].pc = "verify_pdf" /\ inv'[p] # inv[p] =>
              LET temp == inv[p].pdf_path
                  new == VerifiedPath[inv[p].url]
              IN  /\ inv'[p].pc = "for_url"
                  /\ files'[temp] = NoFile
                  /\ \A path \in Paths \ {temp, new} : files'[path] = files[path]
                  /\ IF MatchesAll(files[temp], Cas(p), Name(p))
                     THEN /\ files'[new] = files[temp]
                          /\ obs'[p].promoted =
                                 Append(obs[p].promoted, <<inv[p].di, inv[p].url>>)
                     ELSE /\ files'[new] = files[new]
                          /\ obs'[p].promoted = obs[p].promoted]_vars

\* a downloaded document has been deleted while a file of its name, promoted
\* earlier, is in the verified folder
C16_Witness ==
    \E p \in Procs :
        /\ inv[p].pc = "for_url"
        /\ inv[p].pdf_path \in TempPaths
        /\ files[inv[p].pdf_path] = NoFile
        /\ files[VerifiedPath[inv[p].url]] # NoFile
        /\ obs[p].promoted # <<>>
        /\ obs[p].promoted[Len(obs[p].promoted)][2] # inv[p].url
        /\ obs[p].downloaded > Len(obs[p].promoted)

\* C17: in one invocation of main that no other invocation interleaves with,
\* DOWNLOADED_FILES_COUNT is 0 when main starts, changes only by +1 when a
\* download succeeds, and never exceeds 5; so the successful downloads and
\* the report entries of the invocation, over all records, number at most 5
\* each.
C17_CounterWithinLimit ==
    [][/\ \A p \in Procs :
            ~Active(p) /\ Active(p)' =>
                DOWNLOADED_FILES_COUNT' = 0 /\ obs'[p].downloaded = 0
       /\ (\A p \in Procs : Active(p) = Active(p)') =>
              \/ DOWNLOADED_FILES_COUNT' = DOWNLOADED_FILES_COUNT
              \/ /\ DOWNLOADED_FILES_COUNT' = DOWNLOADED_FILES_COUNT + 1
                 /\ \E p \in Procs :
                        /\ inv[p].pc = "await_read" /\ inv'[p].pc = "verify_pdf"
                        /\ files'[inv[p].pdf_path] \in Documents
       /\ DOWNLOADED_FILES_COUNT' <= 5
       /\ \A p \in Procs :
            Active(p)' =>
                /\ obs'[p].downloaded = DOWNLOADED_FILES_COUNT'
                /\ Len(obs'[p].promoted) <= DOWNLOADED_FILES_COUNT'
                /\ Len(inv'[p].report_list) <= DOWNLOADED_FILES_COUNT']_vars

\* a second invocation is complete with the counter at 5 and five report
\* entries
C17_Witness ==
    \E p \in Procs :
        /\ runs = 2
        /\ inv[p].pc = "done"
        /\ DOWNLOADED_FILES_COUNT = 5
        /\ Len(inv[p].report_list) = 5

\* the trailing path segment of each URL, with ".pdf" appended when missing
TempNameOf ==
    [u \in URLS |-> IF u \in PdfSuffixed THEN Str(LastSegment(Chars(u)))
                    ELSE Str(LastSegment(Chars(u)) \o DotPdf)]

\* C18: the temporary file of an invocation that is suspended in
\* response.read is truncated, written, promoted or deleted by another
\* invocation only when that one is working on a candidate with the same
\* trailing path segment, and then it can be (see C18_Witness); left alone,
\* the invocation finds the body it has read at its path, with no other file
\* changed.
C18_CollisionOnSameSegment ==
    [][\A p \in Procs :
          /\ /\ inv[p].pc = "await_read" /\ inv'[p].pc = "await_read"
             /\ \/ files'[inv[p].pdf_path] # files[inv[p].pdf_path]
                \/ inv'[p].pdf_file # inv[p].pdf_file
             => \E q \in Procs \ {p} :
                    /\ inv'[q].pc # inv[q].pc
                    /\ TempNameOf[inv[q].url] = TempNameOf[inv[p].url]
          /\ /\ inv[p].pc = "await_read" /\ inv'[p].pc = "verify_pdf"
             /\ inv[p].pdf_file = inv[p].pdf_path
             /\ files[inv[p].pdf_path] = EmptyFile
             => /\ files'[inv[p].pdf_path] \in Documents
                /\ \A path \in Paths \ {inv[p].pdf_path} : files'[path] = files[path]]_vars

\* an invocation is about to verify a download that is no longer at its
\* path, while the document another invocation promoted from a different URL
\* with the same trailing segment now holds content that does not match that
\* invocation's identifier
C18_Witness ==
    \E p \in Procs : \E q \in Procs \ {p} :
        /\ inv[p].pc = "verify_pdf"
        /\ files[inv[p].pdf_path] = NoFile
        /\ Len(obs[q].promoted) = 1
        /\ LET u == obs[q].promoted[1][2]
           IN  /\ u # inv[p].url
               /\ TempNameOf[u] = TempNameOf[inv[p].url]
               /\ files[VerifiedPath[u]] # NoFile
               /\ ~MatchesAll(files[VerifiedPath[u]], inv[q].input_data[1].cas,
                              inv[q].input_data[1].name)

\* the files of the verified folder
VerifiedPaths == {VerifiedPath[u] : u \in URLS}

\* C19 as claimed: a document in the verified folder is never overwritten or
\* replaced: the file a report entry names stays the document that was
\* promoted for it, also when a later candidate with the same trailing path
\* segment is promoted.
C19_PromotedNeverReplaced ==
    [][\A path \in VerifiedPaths :
          files[path] # NoFile => files'[path] = files[path]]_vars

\* C20 as claimed: when download_and_verify_pdfs comes to os.rename or
\* os.remove, the temporary file is at pdf_path, so that neither raises
\* FileNotFoundError and no invocation ends with an exception; also with two
\* invocations interleaved at session.get and response.read.
C20_TempFilePresentAtVerify ==
    \A p \in Procs :
        /\ inv[p].pc = "verify_pdf" => files[inv[p].pdf_path] # NoFile
        /\ inv[p].pc # "raised"

====
